---- MODULE Spec2Model ----
(***************************************************************************)
(* A model of repo-to-text (src/src/main.rs): the path filter, the walk,   *)
(* the large-file gate, the redaction pass and the parallel aggregation    *)
(* of RepoProcessor.                                                       *)
(*                                                                         *)
(* Strings are sequences of one-character strings.  Paths of the walked    *)
(* tree are node numbers; a node carries its base name, its kind and its   *)
(* size.  The output document is a sequence of bytes, each byte tagged     *)
(* with the writer it came from (<<0, i>> is byte i of the run header,     *)
(* <<f, i>> is byte i of the extraction block of file f).                  *)
(***************************************************************************)
EXTENDS Integers, Sequences, FiniteSets, TLC

VARIABLES
    pc,                 \* position of the main thread / of the probe
    runResult,          \* "none", "ok" or "err": what process_repository returned
    ignored_dirs,       \* RepoProcessor.ignored_dirs
    allowed_exts,       \* RepoProcessor.allowed_exts
    additional_ignores, \* argument of new: the --ignore items, or None
    include_exts,       \* argument of new: the --include items, or None
    fname,              \* probe input: a file name given to should_ignore_ext
    extIgnored,         \* probe output of should_ignore_ext
    nodeName,           \* file system: base name of every node
    nodeSize,           \* file system: size in bytes of every node
    nodeStat,           \* file system: "ok" | "unreadable" (a directory read_dir
                        \* fails on) | "dangling" (a symlink to nothing)
    pending,            \* WalkDir: entries discovered and not yet visited
    wstate,             \* walk worker -> "idle" | "got" | "push"
    wentry,             \* walk worker -> node it holds (0 = none)
    collected,          \* paths returned Some(path) by the filter_map closure
    pruned,             \* entries the filter_entry closure rejected
    files,              \* Vec<PathBuf> returned by collect_files
    large_files,        \* RepoProcessor.large_files: sequence of <<path, size>>
    current_selection,  \* prompt_large_files: one boolean per oversized entry
    current_index,      \* prompt_large_files: cursor, 0-based as in the code
    lastKey,            \* prompt_large_files: the key read last ("none" before any)
    nPressed,           \* history: an N key was read in the selection loop
    files_to_process,   \* the list prompt_large_files returned
    processed_count,    \* Mutex<i32> progress counter
    taken,              \* files the parallel iterator has handed to a worker
    astate,             \* aggregation worker -> position in the closure
    afile,              \* aggregation worker -> file it processes (0 = none)
    acount,             \* aggregation worker -> the count it printed
    tempFiles,          \* temp files that exist (keyed by the file they hold)
    appended,           \* files whose block was written to the locked writer
    failedFiles,        \* files whose extraction (process_file, temp read) failed
    aggErr,             \* some closure of try_for_each returned Err
    reported,           \* "Finished processing" was printed (line 784)
    outLock,            \* holder of output_mutex (0 = free)
    countLock,          \* holder of the processed_count mutex (0 = free)
    hdrBuf,             \* buffer of the first BufWriter (line 735)
    hdrOff,             \* file offset of the first File handle
    outBuf,             \* buffer of the BufWriter inside output_mutex
    outOff,             \* file offset of the second File handle
    outOpen,            \* the second File handle exists
    doc,                \* bytes of repo_content.txt on disk
    text,               \* probe input: decoded content of a file
    redacted            \* probe output: processed_content

vars == <<pc, runResult, ignored_dirs, allowed_exts, additional_ignores,
          include_exts, fname, extIgnored,
          nodeName, nodeSize, nodeStat, pending, wstate, wentry, collected, pruned, files,
          large_files, current_selection, current_index, lastKey, nPressed,
          files_to_process, processed_count, taken, astate, afile, acount,
          tempFiles, appended, failedFiles, aggErr, reported, outLock,
          countLock,
          hdrBuf, hdrOff, outBuf, outOff, outOpen, doc, text, redacted>>

cfgVars == <<ignored_dirs, allowed_exts, additional_ignores, include_exts>>
probeVars == <<fname, extIgnored, text, redacted>>
fsVars == <<nodeName, nodeSize, nodeStat>>
walkVars == <<pending, wstate, wentry, collected, pruned>>
gateVars == <<current_selection, current_index, lastKey, nPressed>>
aggVars == <<processed_count, taken, astate, afile, acount, tempFiles,
             appended, failedFiles, aggErr, outLock, countLock>>
ioVars == <<hdrBuf, hdrOff, outBuf, outOff, outOpen, doc>>

(***************************************************************************)
(* Bounds of the model.                                                    *)
(***************************************************************************)
MaxNameLen == 5         \* longest probe file name
MaxPreLen == 2          \* longest text in front of the probed DATA literal
MaxPayloadLen == 3      \* longest payload of the probed DATA literal
MaxPostLen == 1         \* longest text behind the probed DATA literal
MaxChunks == 4          \* most pattern pieces of a text redacted twice
MaxItems == 2           \* most items of an --ignore or --include list
NumWalkWorkers == 2     \* threads of the rayon pool during the walk
NumAggWorkers == 2      \* threads of the rayon pool during the aggregation
HeaderLen == 2          \* bytes of the run header (lines 737-740)
SmallBlockLen == 3      \* bytes of the block of a file below the threshold
BigBlockLen == 5        \* bytes of the block of an oversized file
BufCap == 4             \* capacity of a BufWriter

(***************************************************************************)
(* Strings.                                                                *)
(***************************************************************************)
UpperCase == {"C", "S", "O", "G", "B"}

LowerChar(c) ==
    CASE c = "C" -> "c"
      [] c = "S" -> "s"
      [] c = "O" -> "o"
      [] c = "G" -> "g"
      [] c = "B" -> "b"
      [] OTHER -> c

\* str::to_lowercase
ToLower(s) == [i \in 1..Len(s) |-> LowerChar(s[i])]

\* str::trim_start_matches('.'): every leading dot is removed
RECURSIVE TrimStartDots(_)
TrimStartDots(s) ==
    IF s # <<>> /\ Head(s) = "." THEN TrimStartDots(Tail(s)) ELSE s

\* str::contains
Contains(s, sub) ==
    \E i \in 0..(Len(s) - Len(sub)) : SubSeq(s, i + 1, i + Len(sub)) = sub

\* str::starts_with
StartsWith(s, pre) ==
    Len(s) >= Len(pre) /\ SubSeq(s, 1, Len(pre)) = pre

\* str::ends_with
EndsWith(s, suf) ==
    Len(s) >= Len(suf) /\ SubSeq(s, Len(s) - Len(suf) + 1, Len(s)) = suf

\* index of the last '.' of s, 0 when there is none
LastDot(s) ==
    IF \E i \in 1..Len(s) : s[i] = "."
    THEN CHOOSE i \in 1..Len(s) :
             s[i] = "." /\ \A j \in (i + 1)..Len(s) : s[j] # "."
    ELSE 0

\* Path::file_name of a one-component path, lossily converted and defaulted
\* to "" when the component is "." or "..".
file_name(name) ==
    IF name = <<".">> \/ name = <<".", ".">> THEN <<>> ELSE name

\* Path::extension: None when the name has no '.', or when its only '.' is
\* the first character; otherwise what follows the last '.'.
extension(name) ==
    LET fn == file_name(name)
        d == LastDot(fn)
    IN  IF fn = <<>> \/ d = 0 \/ d = 1
        THEN [some |-> FALSE, val |-> <<>>]
        ELSE [some |-> TRUE, val |-> SubSeq(fn, d + 1, Len(fn))]

(***************************************************************************)
(* PathFilter.                                                             *)
(***************************************************************************)
should_ignore_dir_nolower(dirs, dir) ==
    TrimStartDots(dir) \in dirs

\* lines 507-511
should_ignore_dir(dirs, dir) ==
    LET dir_lower == ToLower(dir)
        dir_clean == TrimStartDots(dir_lower)
    IN  dir_clean \in dirs

should_ignore_ext_nolower(allowed, file) ==
    LET filename == file_name(file)
        ext == extension(file)
    IN  IF ~Contains(filename, <<".">>) \/ EndsWith(filename, <<".">>)
        THEN TRUE
        ELSE IF Contains(ToLower(filename), <<".", "s", "o", ".">>)
        THEN TRUE
        ELSE IF ~ext.some
        THEN TRUE
        ELSE IF ext.val = <<>>
        THEN TRUE
        ELSE ext.val \notin allowed

should_ignore_ext_so_exact(allowed, file) ==
    LET filename == file_name(file)
        ext == extension(file)
    IN  IF ~Contains(filename, <<".">>) \/ EndsWith(filename, <<".">>)
        THEN TRUE
        ELSE IF Contains(filename, <<".", "s", "o", ".">>)
        THEN TRUE
        ELSE IF ~ext.some
        THEN TRUE
        ELSE IF ToLower(ext.val) = <<>>
        THEN TRUE
        ELSE ToLower(ext.val) \notin allowed

\* lines 513-539
should_ignore_ext(allowed, file) ==
    LET filename == file_name(file)
        ext == extension(file)
    IN  IF ~Contains(filename, <<".">>) \/ EndsWith(filename, <<".">>)
        THEN TRUE
        ELSE IF Contains(ToLower(filename), <<".", "s", "o", ".">>)
        THEN TRUE
        ELSE IF ~ext.some
        THEN TRUE
        ELSE IF ToLower(ext.val) = <<>>
        THEN TRUE
        ELSE ToLower(ext.val) \notin allowed

(***************************************************************************)
(* The walked tree.  Node 1 is the root "."; its shape is fixed, the names *)
(* and the sizes are chosen by Init.                                       *)
(*     1 "."  -+- 2 dir -+- 3 file                                         *)
(*             |         +- 4 dir --- 5 file                               *)
(*             +- 6 file                                                   *)
(***************************************************************************)
Nodes == 1..6
Root == 1
Parent == <<0, 1, 2, 2, 4, 1>>
Kind == <<"dir", "dir", "file", "dir", "file", "file">>
DirNodes == {n \in Nodes : Kind[n] = "dir"} \ {Root}
FileNodes == {n \in Nodes : Kind[n] = "file"}

Children(n) == {m \in Nodes : Parent[m] = n}

RECURSIVE Ancestors(_)
Ancestors(n) ==
    IF Parent[n] = 0 THEN {} ELSE {Parent[n]} \cup Ancestors(Parent[n])

size_threshold == 1048576

\* Path::is_dir and Path::is_file follow symbolic links: both are false
\* for a link whose target is missing
is_dir(n) == Kind[n] = "dir"
is_file(n) == Kind[n] = "file" /\ nodeStat[n] # "dangling"

\* every node can be read
AllReadable == [n \in Nodes |-> "ok"]

\* what WalkDir yields after a directory entry: its children, or one Err
\* item (-n) when read_dir fails on it
read_dir(n) == IF nodeStat[n] = "unreadable" THEN {-n} ELSE Children(n)

WalkWorkers == 1..NumWalkWorkers
AggWorkers == 1..NumAggWorkers

\* all orderings of a finite set, as sequences
Orderings(S) ==
    {s \in [1..Cardinality(S) -> S] :
        \A i, j \in 1..Cardinality(S) : i # j => s[i] # s[j]}

SeqRange(s) == {s[i] : i \in 1..Len(s)}

(***************************************************************************)
(* Configuration tables (a sample of the entries of lines 17-290) and the  *)
(* names and sizes the model draws from.                                   *)
(***************************************************************************)
DEFAULT_ALLOWED_EXTS == {<<"c">>, <<"r", "s">>}
DEFAULT_IGNORED_DIRS == {<<"g", "i", "t">>, <<"b", "u", "i", "l", "d">>}

NameAlphabet == {".", "s", "o", "c", "S", "C"}
ExtChoices == {<<"c">>, <<"s", "o">>}
DirNameChoices ==
    {<<"s", "r", "c">>, <<".", "G", "i", "t">>, <<"b", "u", "i", "l", "d">>,
     <<"g", "i", "t", ".", "c">>}
SizeChoices == {size_threshold, size_threshold + 1}

\* the bytes of the run header and of the block of file f
HeaderBytes == [i \in 1..HeaderLen |-> <<0, i>>]
BlockLen(f) ==
    IF nodeSize[f] > size_threshold THEN BigBlockLen ELSE SmallBlockLen
BlockBytes(f) == [i \in 1..BlockLen(f) |-> <<f, i>>]

(***************************************************************************)
(* Initial states.                                                         *)
(***************************************************************************)
ProbeIdle ==
    /\ fname = <<>>
    /\ extIgnored = FALSE
    /\ text = <<>>
    /\ redacted = <<>>

\* RepoProcessor::new without --ignore and --include
\* Option<Vec<String>>
None == [some |-> FALSE, val |-> <<>>]
Some(v) == [some |-> TRUE, val |-> v]

\* new(None, None): the tables alone
ConfigInit ==
    /\ ignored_dirs = DEFAULT_IGNORED_DIRS
    /\ allowed_exts = DEFAULT_ALLOWED_EXTS
    /\ additional_ignores = None
    /\ include_exts = None

\* a tree whose node names and file sizes are drawn, node by node, from the
\* sets names[n] and sizes[n]
FSInit(names, sizes) ==
    /\ nodeName \in [Nodes -> UNION {names[n] : n \in Nodes}]
    /\ \A n \in Nodes : nodeName[n] \in names[n]
    /\ nodeSize \in [Nodes -> UNION {sizes[n] : n \in Nodes}]
    /\ \A n \in Nodes : nodeSize[n] \in sizes[n]

\* the tree of a whole run: src/a.c, src/{src,.Git}/a.c, a.png
RunNames ==
    <<{<<".">>}, {<<"s", "r", "c">>}, {<<"a", ".", "c">>},
      {<<"s", "r", "c">>, <<".", "G", "i", "t">>}, {<<"a", ".", "c">>},
      {<<"a", ".", "p", "n", "g">>}>>
RunSizes ==
    <<{0}, {0}, SizeChoices, {0}, SizeChoices, {size_threshold}>>

WalkIdle ==
    /\ pending = {}
    /\ wstate = [w \in WalkWorkers |-> "idle"]
    /\ wentry = [w \in WalkWorkers |-> 0]
    /\ collected = {}
    /\ pruned = {}

GateIdle ==
    /\ current_selection = <<>>
    /\ current_index = 0
    /\ lastKey = "none"
    /\ nPressed = FALSE
    /\ files_to_process = <<>>

AggIdle ==
    /\ processed_count = 0
    /\ taken = {}
    /\ astate = [w \in AggWorkers |-> "idle"]
    /\ afile = [w \in AggWorkers |-> 0]
    /\ acount = [w \in AggWorkers |-> 0]
    /\ tempFiles = {}
    /\ appended = {}
    /\ failedFiles = {}
    /\ aggErr = FALSE
    /\ reported = FALSE
    /\ outLock = 0
    /\ countLock = 0
    /\ hdrBuf = <<>>
    /\ hdrOff = 0
    /\ outBuf = <<>>
    /\ outOff = 0
    /\ outOpen = FALSE
    /\ runResult = "none"

\* the state in which process_repository is called; repo_content.txt holds
\* a byte of an earlier run
Init ==
    /\ pc = "start"
    /\ ConfigInit
    /\ ProbeIdle
    /\ FSInit(RunNames, RunSizes)
    /\ nodeStat = AllReadable
    /\ WalkIdle
    /\ files = <<>>
    /\ large_files = <<>>
    /\ GateIdle
    /\ AggIdle
    /\ doc = <<<<-1, 1>>>>

(***************************************************************************)
(* Walker: collect_files.                                                  *)
(***************************************************************************)
\* the closure given to filter_entry (lines 545-553); the root "." has no
\* file_name
FilterEntry(n) ==
    IF is_dir(n) /\ file_name(nodeName[n]) # <<>>
    THEN ~should_ignore_dir(ignored_dirs, nodeName[n])
    ELSE TRUE

\* FilterMap with the comparison size >= size_threshold
FilterMap_ge(n) ==
    IF n < 0 THEN "none"
    ELSE IF ~is_file(n) THEN "none"
    ELSE IF StartsWith(file_name(nodeName[n]), <<".", "_">>)
            \/ should_ignore_ext(allowed_exts, nodeName[n])
    THEN "none"
    ELSE IF nodeSize[n] >= size_threshold THEN "large"
    ELSE "some"

\* the part of the filter_map closure that decides without shared state
\* (lines 556-576): "none", "some" or "large"; metadata() of a path that
\* is_file() has just accepted succeeds
FilterMap(n) ==
    IF n < 0 THEN "none"                      \* Err(_) => None, line 583
    ELSE IF ~is_file(n) THEN "none"
    ELSE IF StartsWith(file_name(nodeName[n]), <<".", "_">>)
            \/ should_ignore_ext(allowed_exts, nodeName[n])
    THEN "none"
    ELSE IF nodeSize[n] > size_threshold THEN "large"
    ELSE "some"

\* WalkNext with an iterator that ends at the first Err item
WalkNext_stop_on_err(w) ==
    /\ pc = "walk"
    /\ wstate[w] = "idle"
    /\ \E n \in pending :
          IF n < 0
          THEN /\ pending' = {}
               /\ UNCHANGED <<wstate, wentry, pruned>>
          ELSE IF FilterEntry(n)
          THEN /\ pending' = (pending \ {n}) \cup
                              (IF is_dir(n) THEN read_dir(n) ELSE {})
               /\ wstate' = [wstate EXCEPT ![w] = "got"]
               /\ wentry' = [wentry EXCEPT ![w] = n]
               /\ UNCHANGED pruned
          ELSE /\ pending' = pending \ {n}
               /\ pruned' = pruned \cup {n}
               /\ UNCHANGED <<wstate, wentry>>
    /\ UNCHANGED <<collected, large_files, gateVars, aggVars, ioVars, cfgVars,
                   probeVars, fsVars, pc, runResult, files, files_to_process,
                   reported>>

\* par_bridge: a worker pulls the next entry of the filtered WalkDir
\* iterator; an entry the predicate rejects is dropped and, when it is a
\* directory, never descended into (skip_current_dir); an Err item (n < 0)
\* is passed on to the closure without asking the predicate
WalkNext(w) ==
    /\ pc = "walk"
    /\ wstate[w] = "idle"
    /\ \E n \in pending :
          IF n < 0 \/ FilterEntry(n)
          THEN /\ pending' = (pending \ {n}) \cup
                              (IF n > 0 /\ is_dir(n) THEN read_dir(n) ELSE {})
               /\ wstate' = [wstate EXCEPT ![w] = "got"]
               /\ wentry' = [wentry EXCEPT ![w] = n]
               /\ UNCHANGED pruned
          ELSE /\ pending' = pending \ {n}
               /\ pruned' = pruned \cup {n}
               /\ UNCHANGED <<wstate, wentry>>
    /\ UNCHANGED <<collected, large_files, gateVars, aggVars, ioVars, cfgVars,
                   probeVars, fsVars, pc, runResult, files, files_to_process,
                   reported>>

\* the filter_map closure up to the point where it needs the lock
WalkFilter(w) ==
    /\ pc = "walk"
    /\ wstate[w] = "got"
    /\ LET r == FilterMap(wentry[w]) IN
         /\ wstate' = [wstate EXCEPT ![w] = IF r = "large" THEN "push" ELSE "idle"]
         /\ wentry' = [wentry EXCEPT ![w] = IF r = "large" THEN @ ELSE 0]
         /\ collected' = IF r = "some" THEN collected \cup {wentry[w]}
                                       ELSE collected
    /\ UNCHANGED <<pending, pruned, large_files, gateVars, aggVars, ioVars,
                   cfgVars, probeVars, fsVars, pc, runResult, files,
                   files_to_process, reported>>

\* large_files.lock().unwrap().push((path, size)), then Some(path)
WalkPush(w) ==
    /\ pc = "walk"
    /\ wstate[w] = "push"
    /\ large_files' = Append(large_files, <<wentry[w], nodeSize[wentry[w]]>>)
    /\ collected' = collected \cup {wentry[w]}
    /\ wstate' = [wstate EXCEPT ![w] = "idle"]
    /\ wentry' = [wentry EXCEPT ![w] = 0]
    /\ UNCHANGED <<pending, pruned, gateVars, aggVars, ioVars, cfgVars,
                   probeVars, fsVars, pc, runResult, files, files_to_process,
                   reported>>

\* WalkDone without the join of collect(): the gate is entered while
\* workers are still in the closure
WalkDone_early ==
    /\ pc = "walk"
    /\ pending = {}
    /\ files' \in Orderings(collected)
    /\ pc' = "gate"
    /\ UNCHANGED <<walkVars, large_files, gateVars, aggVars, ioVars, cfgVars,
                   probeVars, fsVars, runResult, files_to_process, reported>>

\* collect(): every worker is done; the order of the vector is whatever
\* the pool produced
WalkDone ==
    /\ pc = "walk"
    /\ pending = {}
    /\ \A w \in WalkWorkers : wstate[w] = "idle"
    /\ files' \in Orderings(collected)
    /\ pc' = "gate"
    /\ UNCHANGED <<walkVars, large_files, gateVars, aggVars, ioVars, cfgVars,
                   probeVars, fsVars, runResult, files_to_process, reported>>

(***************************************************************************)
(* LargeFileGate: prompt_large_files.                                      *)
(***************************************************************************)
\* lines 705-731: the paths whose entry is selected, then the filter
prompt_filter_drop_small(fs, large, sel) ==
    LET selected_paths == {large[i][1] : i \in {j \in 1..Len(large) : sel[j]}}
        Keep(f) == IF \E i \in 1..Len(large) : large[i][1] = f
                   THEN f \in selected_paths
                   ELSE FALSE
    IN  SelectSeq(fs, Keep)

prompt_filter(fs, large, sel) ==
    LET selected_paths == {large[i][1] : i \in {j \in 1..Len(large) : sel[j]}}
        Keep(f) == IF \E i \in 1..Len(large) : large[i][1] = f
                   THEN f \in selected_paths
                   ELSE TRUE
    IN  SelectSeq(fs, Keep)

\* line 662: vec![true; items.len()]
initial_selection_reject(n) == [i \in 1..n |-> FALSE]

initial_selection(n) == [i \in 1..n |-> TRUE]

\* lines 643-663: return at once when nothing is oversized, else set up the
\* selection loop
GateEnter ==
    /\ pc = "gate"
    /\ IF large_files = <<>>
       THEN /\ files_to_process' = files
            /\ pc' = "create2"
            /\ UNCHANGED gateVars
       ELSE /\ current_selection' = initial_selection(Len(large_files))
            /\ current_index' = 0
            /\ pc' = "loop"
            /\ UNCHANGED <<files_to_process, lastKey, nPressed>>
    /\ UNCHANGED <<walkVars, aggVars, ioVars, cfgVars, probeVars, fsVars,
                   runResult, files, large_files, reported>>

\* advance with the guard idx < n, one past the last entry
advance_to_len(idx, n) == IF idx < n THEN idx + 1 ELSE idx

\* the cursor after a Y or an N (lines 681-683, 687-689)
advance(idx, n) == IF idx < n - 1 THEN idx + 1 ELSE idx

gateFrame ==
    UNCHANGED <<walkVars, aggVars, ioVars, cfgVars, probeVars, fsVars, pc,
                runResult, files, large_files, files_to_process, reported>>

\* KeyY with the cursor moved before the assignment
KeyY_after_move ==
    /\ pc = "loop"
    /\ current_index' = advance(current_index, Len(large_files))
    /\ current_selection' =
          [current_selection EXCEPT ![current_index' + 1] = TRUE]
    /\ lastKey' = "Y"
    /\ UNCHANGED nPressed
    /\ gateFrame

\* Key::Char('y') | Key::Char('Y')
KeyY ==
    /\ pc = "loop"
    /\ current_selection' = [current_selection EXCEPT ![current_index + 1] = TRUE]
    /\ current_index' = advance(current_index, Len(large_files))
    /\ lastKey' = "Y"
    /\ UNCHANGED nPressed
    /\ gateFrame

\* Key::Char('n') | Key::Char('N')
KeyN ==
    /\ pc = "loop"
    /\ current_selection' = [current_selection EXCEPT ![current_index + 1] = FALSE]
    /\ current_index' = advance(current_index, Len(large_files))
    /\ lastKey' = "N"
    /\ nPressed' = TRUE
    /\ gateFrame

\* Key::ArrowUp; with the cursor on the first entry the guard fails and the
\* key falls to the catch-all arm
KeyUp ==
    /\ pc = "loop"
    /\ current_index' = IF current_index > 0 THEN current_index - 1
                                             ELSE current_index
    /\ lastKey' = "Up"
    /\ UNCHANGED <<current_selection, nPressed>>
    /\ gateFrame

\* Key::ArrowDown; on the last entry the key falls to the catch-all arm
KeyDown ==
    /\ pc = "loop"
    /\ current_index' = IF current_index < Len(large_files) - 1
                         THEN current_index + 1
                         ELSE current_index
    /\ lastKey' = "Down"
    /\ UNCHANGED <<current_selection, nPressed>>
    /\ gateFrame

\* KeyOther with a catch-all arm that breaks out of the loop
KeyOther_break ==
    /\ pc = "loop"
    /\ lastKey' \in {"Other", "Err"}
    /\ files_to_process' = prompt_filter(files, large_files, current_selection)
    /\ pc' = "create2"
    /\ UNCHANGED <<current_selection, current_index, nPressed>>
    /\ UNCHANGED <<walkVars, aggVars, ioVars, cfgVars, probeVars, fsVars,
                   runResult, files, large_files, reported>>

\* any other key, or read_key returning Err: the loop goes round
KeyOther ==
    /\ pc = "loop"
    /\ lastKey' \in {"Other", "Err"}
    /\ UNCHANGED <<current_selection, current_index, nPressed>>
    /\ gateFrame

\* Key::Enter: break, then lines 705-731
KeyEnter ==
    /\ pc = "loop"
    /\ lastKey' = "Enter"
    /\ files_to_process' = prompt_filter(files, large_files, current_selection)
    /\ pc' = "create2"
    /\ UNCHANGED <<current_selection, current_index, nPressed>>
    /\ UNCHANGED <<walkVars, aggVars, ioVars, cfgVars, probeVars, fsVars,
                   runResult, files, large_files, reported>>

(***************************************************************************)
(* Files and buffered writers.                                             *)
(***************************************************************************)
\* write(2) at a file offset: bytes are replaced in place, the file grows
\* when the write ends past its end (<<-2, 0>> is a byte of a hole)
WriteAt(d, off, data) ==
    LET end == off + Len(data)
        n == IF Len(d) > end THEN Len(d) ELSE end
    IN  [i \in 1..n |->
            IF i > off /\ i <= end THEN data[i - off]
            ELSE IF i <= Len(d) THEN d[i]
            ELSE <<-2, 0>>]

\* BufWriter::flush_buf, also run when the writer is dropped
BufFlush(buf, off, d) ==
    [buf |-> <<>>, off |-> off + Len(buf), doc |-> WriteAt(d, off, buf)]

\* BufWriter::write_all: data that fits is kept in the buffer; otherwise
\* the buffer is flushed first and data as large as the buffer goes
\* straight to the file
BufWriteAll(buf, off, d, data) ==
    LET spare == BufCap - Len(buf) IN
    IF Len(data) < spare
    THEN [buf |-> buf \o data, off |-> off, doc |-> d]
    ELSE LET f == IF Len(data) > spare
                  THEN BufFlush(buf, off, d)
                  ELSE [buf |-> buf, off |-> off, doc |-> d]
         IN  IF Len(data) >= BufCap
             THEN [buf |-> f.buf, off |-> f.off + Len(data),
                   doc |-> WriteAt(f.doc, f.off, data)]
             ELSE [buf |-> f.buf \o data, off |-> f.off, doc |-> f.doc]

\* a run of writeln! calls, here one byte each
RECURSIVE BufWriteEach(_, _, _, _)
BufWriteEach(buf, off, d, data) ==
    IF data = <<>> THEN [buf |-> buf, off |-> off, doc |-> d]
    ELSE LET r == BufWriteAll(buf, off, d, <<Head(data)>>)
         IN  BufWriteEach(r.buf, r.off, r.doc, Tail(data))

(***************************************************************************)
(* Aggregator: process_repository.                                         *)
(***************************************************************************)
\* lines 735-743: File::create truncates repo_content.txt, the header goes
\* to the BufWriter, the walk starts at "."
Start ==
    /\ pc = "start"
    /\ \E created \in BOOLEAN :
          IF created
          THEN LET r == BufWriteEach(<<>>, 0, <<>>, HeaderBytes) IN
               /\ hdrBuf' = r.buf
               /\ hdrOff' = r.off
               /\ doc' = r.doc
               /\ pending' = {Root}
               /\ pc' = "walk"
               /\ UNCHANGED runResult
          ELSE /\ runResult' = "err"
               /\ pc' = "done"
               /\ UNCHANGED <<hdrBuf, hdrOff, doc, pending>>
    /\ UNCHANGED <<wstate, wentry, collected, pruned, gateVars, aggVars,
                   cfgVars, probeVars, fsVars, outBuf, outOff, outOpen, files,
                   large_files, files_to_process, reported>>

\* lines 747-751: prompt_large_files has returned and its locals are gone;
\* the counter, then the second File::create of the same path, which
\* truncates the file again; on failure the function returns and its
\* locals are dropped
Create2 ==
    /\ pc = "create2"
    /\ processed_count' = 0
    /\ current_selection' = <<>>
    /\ current_index' = 0
    /\ lastKey' = "none"
    /\ nPressed' = FALSE
    /\ \E created \in BOOLEAN :
          IF created
          THEN /\ doc' = <<>>
               /\ outBuf' = <<>>
               /\ outOff' = 0
               /\ outOpen' = TRUE
               /\ pc' = "agg"
               /\ UNCHANGED runResult
          ELSE /\ runResult' = "err"
               /\ pc' = "drop_hdr"
               /\ UNCHANGED <<doc, outBuf, outOff, outOpen>>
    /\ UNCHANGED <<walkVars, cfgVars, probeVars, fsVars, taken,
                   astate, afile, acount, tempFiles, appended, failedFiles,
                   aggErr, outLock, countLock, hdrBuf, hdrOff, files, large_files,
                   files_to_process, reported>>

aggFrame ==
    UNCHANGED <<walkVars, gateVars, cfgVars, probeVars, fsVars, pc, runResult,
                files, large_files, files_to_process, reported, hdrBuf,
                hdrOff, outOpen>>

\* the pool hands a file to a worker, whose closure takes the counter lock
\* and increments (lines 757-759); a worker that has not yet seen another
\* closure's Err may still start a file
AggStart(w) ==
    /\ pc = "agg"
    /\ astate[w] = "idle"
    /\ countLock = 0
    /\ countLock' = w
    /\ \E f \in SeqRange(files_to_process) \ taken :
          /\ taken' = taken \cup {f}
          /\ afile' = [afile EXCEPT ![w] = f]
    /\ processed_count' = processed_count + 1
    /\ acount' = [acount EXCEPT ![w] = processed_count + 1]
    /\ astate' = [astate EXCEPT ![w] = "counted"]
    /\ UNCHANGED <<tempFiles, appended, failedFiles, aggErr, outLock,
                   outBuf, outOff, doc>>
    /\ aggFrame

\* lines 760-769: the guard of the counter is dropped at the end of the
\* block, then the count is printed
AggPrint(w) ==
    /\ pc = "agg"
    /\ astate[w] = "counted"
    /\ countLock' = 0
    /\ astate' = [astate EXCEPT ![w] = "extract"]
    /\ UNCHANGED <<processed_count, taken, afile, acount, tempFiles,
                   appended, failedFiles, aggErr, outLock, outBuf, outOff,
                   doc>>
    /\ aggFrame

\* line 771: process_file creates the temp file, reads the source and
\* writes the block; either I/O step may fail
AggProcessFile(w) ==
    /\ pc = "agg"
    /\ astate[w] = "extract"
    /\ \E outcome \in {"ok", "create_err", "read_err"} :
          /\ tempFiles' = IF outcome = "create_err" THEN tempFiles
                          ELSE tempFiles \cup {afile[w]}
          /\ IF outcome = "ok"
             THEN /\ astate' = [astate EXCEPT ![w] = "read"]
                  /\ UNCHANGED <<afile, failedFiles, aggErr>>
             ELSE /\ astate' = [astate EXCEPT ![w] = "idle"]
                  /\ afile' = [afile EXCEPT ![w] = 0]
                  /\ failedFiles' = failedFiles \cup {afile[w]}
                  /\ aggErr' = TRUE
    /\ UNCHANGED <<processed_count, taken, acount, appended, outLock, countLock,
                   outBuf, outOff, doc>>
    /\ aggFrame

\* AggRead without the ?: a failed read is noted and the closure goes on
\* to the append
AggRead_continue(w) ==
    /\ pc = "agg"
    /\ astate[w] = "read"
    /\ \E ok \in BOOLEAN :
          IF ok
          THEN UNCHANGED <<failedFiles, aggErr>>
          ELSE /\ failedFiles' = failedFiles \cup {afile[w]}
               /\ aggErr' = TRUE
    /\ astate' = [astate EXCEPT ![w] = "write"]
    /\ UNCHANGED <<processed_count, taken, afile, acount, tempFiles, appended,
                   outLock, countLock, outBuf, outOff, doc>>
    /\ aggFrame

\* line 772: fs::read_to_string(&temp_file)?
AggRead(w) ==
    /\ pc = "agg"
    /\ astate[w] = "read"
    /\ \E ok \in BOOLEAN :
          IF ok
          THEN /\ astate' = [astate EXCEPT ![w] = "write"]
               /\ UNCHANGED <<afile, failedFiles, aggErr>>
          ELSE /\ astate' = [astate EXCEPT ![w] = "idle"]
               /\ afile' = [afile EXCEPT ![w] = 0]
               /\ failedFiles' = failedFiles \cup {afile[w]}
               /\ aggErr' = TRUE
    /\ UNCHANGED <<processed_count, taken, acount, tempFiles, appended,
                   outLock, countLock, outBuf, outOff, doc>>
    /\ aggFrame

\* line 775: output_mutex.lock() blocks until the mutex is free
AggLock(w) ==
    /\ pc = "agg"
    /\ astate[w] = "write"
    /\ outLock = 0
    /\ outLock' = w
    /\ astate' = [astate EXCEPT ![w] = "locked"]
    /\ UNCHANGED <<processed_count, taken, afile, acount, tempFiles,
                   appended, failedFiles, aggErr, countLock, outBuf, outOff, doc>>
    /\ aggFrame

\* line 776: the holder of output_mutex writes the block to its BufWriter
AggWrite(w) ==
    /\ pc = "agg"
    /\ astate[w] = "locked"
    /\ LET r == BufWriteAll(outBuf, outOff, doc, BlockBytes(afile[w])) IN
         /\ outBuf' = r.buf
         /\ outOff' = r.off
         /\ doc' = r.doc
    /\ appended' = appended \cup {afile[w]}
    /\ astate' = [astate EXCEPT ![w] = "cleanup"]
    /\ UNCHANGED <<processed_count, taken, afile, acount, tempFiles,
                   failedFiles, aggErr, outLock, countLock>>
    /\ aggFrame

\* lines 779-781: remove the temp file and return; the guard of
\* output_mutex is dropped as the closure returns, also on the error path
AggCleanup(w) ==
    /\ pc = "agg"
    /\ astate[w] = "cleanup"
    /\ \E ok \in BOOLEAN :
          /\ tempFiles' = IF ok THEN tempFiles \ {afile[w]} ELSE tempFiles
          /\ aggErr' = (aggErr \/ ~ok)
    /\ outLock' = 0
    /\ astate' = [astate EXCEPT ![w] = "idle"]
    /\ afile' = [afile EXCEPT ![w] = 0]
    /\ UNCHANGED <<processed_count, taken, acount, appended, failedFiles,
                   countLock,                   outBuf, outOff, doc>>
    /\ aggFrame

\* what try_for_each returns to the ? of line 782
try_for_each_swallow(err) == "ok"

try_for_each_result(err) == IF err THEN "err" ELSE "ok"

\* try_for_each returns: every file was handed out, or an Err stopped the
\* pool early; an Err makes process_repository return at once
AggDone ==
    /\ pc = "agg"
    /\ \A w \in AggWorkers : astate[w] = "idle"
    /\ aggErr \/ taken = SeqRange(files_to_process)
    /\ IF try_for_each_result(aggErr) = "err"
       THEN /\ runResult' = "err"
            /\ pc' = "drop_out"
       ELSE /\ pc' = "finish"
            /\ UNCHANGED runResult
    /\ UNCHANGED <<walkVars, gateVars, aggVars, ioVars, cfgVars, probeVars,
                   fsVars, files, large_files, files_to_process, reported>>

\* lines 784-792: the completion message, then remove_dir_all(temp_dir)?
Finish ==
    /\ pc = "finish"
    /\ reported' = TRUE
    /\ \E ok \in BOOLEAN :
          /\ runResult' = IF ok THEN "ok" ELSE "err"
          /\ tempFiles' = IF ok THEN {} ELSE tempFiles
    /\ pc' = "drop_out"
    /\ UNCHANGED <<walkVars, gateVars, ioVars, cfgVars, probeVars, fsVars,
                   processed_count, taken, astate, afile, acount, appended,
                   failedFiles, aggErr, outLock, countLock, files, large_files,
                   files_to_process>>

\* the locals are dropped in reverse order of declaration: output_mutex
\* (line 751) first, its BufWriter flushing what it still holds
DropOutputMutex ==
    /\ pc = "drop_out"
    /\ LET r == BufFlush(outBuf, outOff, doc) IN
         /\ outBuf' = r.buf
         /\ outOff' = r.off
         /\ doc' = r.doc
    /\ outOpen' = FALSE
    /\ pc' = "drop_hdr"
    /\ UNCHANGED <<walkVars, gateVars, aggVars, cfgVars, probeVars, fsVars,
                   runResult, files, large_files, files_to_process, reported,
                   hdrBuf, hdrOff>>

\* then output (line 735): the header it buffered is flushed at the offset
\* of the first File handle
DropOutput ==
    /\ pc = "drop_hdr"
    /\ LET r == BufFlush(hdrBuf, hdrOff, doc) IN
         /\ hdrBuf' = r.buf
         /\ hdrOff' = r.off
         /\ doc' = r.doc
    /\ pc' = "done"
    /\ UNCHANGED <<walkVars, gateVars, aggVars, cfgVars, probeVars, fsVars,
                   runResult, files, large_files, files_to_process, reported,
                   outBuf, outOff, outOpen>>

Next ==
    \/ Start
    \/ \E w \in WalkWorkers : WalkNext(w)
    \/ \E w \in WalkWorkers : WalkFilter(w)
    \/ \E w \in WalkWorkers : WalkPush(w)
    \/ WalkDone
    \/ GateEnter
    \/ KeyY
    \/ KeyN
    \/ KeyUp
    \/ KeyDown
    \/ KeyOther
    \/ KeyEnter
    \/ Create2
    \/ \E w \in AggWorkers : AggStart(w)
    \/ \E w \in AggWorkers : AggPrint(w)
    \/ \E w \in AggWorkers : AggProcessFile(w)
    \/ \E w \in AggWorkers : AggRead(w)
    \/ \E w \in AggWorkers : AggLock(w)
    \/ \E w \in AggWorkers : AggWrite(w)
    \/ \E w \in AggWorkers : AggCleanup(w)
    \/ AggDone
    \/ Finish
    \/ DropOutputMutex
    \/ DropOutput

Spec == Init /\ [][Next]_vars

(***************************************************************************)
(* Properties of the aggregation (specification Spec).                     *)
(***************************************************************************)
FinalFiles == SeqRange(files_to_process)

\* byte b of the document belongs to an extraction block
IsBlockByte(b) == b[1] > 0

\* the block of f lies in the document, whole and contiguous, at offset o
BlockAt(f, o) ==
    /\ o + BlockLen(f) <= Len(doc)
    /\ \A i \in 1..BlockLen(f) : doc[o + i] = <<f, i>>

\* C1: after a successful run the document holds exactly one whole,
\* contiguous block per file of the final list and no byte of any other
\* block.
C1_OneWholeBlockPerFile ==
    (pc = "done" /\ runResult = "ok") =>
        /\ \A f \in FinalFiles : \E o \in 0..Len(doc) : BlockAt(f, o)
        /\ \A p \in 1..Len(doc) :
              IsBlockByte(doc[p]) =>
                  /\ doc[p][1] \in FinalFiles
                  /\ \E o \in 0..Len(doc) :
                        BlockAt(doc[p][1], o) /\ p = o + doc[p][2]

\* C2: a byte of a block that is in the document is never changed or
\* removed by a later step.
C2_BlockBytesNeverRevised ==
    [][\A p \in 1..Len(doc) :
          IsBlockByte(doc[p]) => (p <= Len(doc') /\ doc'[p] = doc[p])]_vars

\* C3: whenever the document holds a byte of a block, the run header is
\* already in the document, in front of every block byte.
C3_HeaderBeforeBlocks ==
    (\E p \in 1..Len(doc) : IsBlockByte(doc[p])) =>
        /\ Len(doc) >= HeaderLen
        /\ SubSeq(doc, 1, HeaderLen) = HeaderBytes
        /\ \A p \in 1..HeaderLen : ~IsBlockByte(doc[p])

\* C4: when the extraction of a file of the final list has failed, the run
\* never prints its completion message and never returns Ok; a run that
\* returns Ok has written the block of every file of the final list.
C4_FailFast ==
    /\ failedFiles # {} =>
          /\ ~reported
          /\ runResult # "ok"
          /\ pc = "done" => runResult = "err"
    /\ runResult = "ok" => appended = FinalFiles

\* a run in which one file failed after another file's block was written
C4_Witness ==
    /\ pc = "done"
    /\ runResult = "err"
    /\ failedFiles # {}
    /\ appended # {}

(***************************************************************************)
(* Specification SpecFilter: should_ignore_ext applied to every file name  *)
(* of at most MaxNameLen characters, under every allow-list over           *)
(* ExtChoices.                                                             *)
(***************************************************************************)
NoFS ==
    /\ nodeName = [n \in Nodes |-> <<".">>]
    /\ nodeSize = [n \in Nodes |-> 0]
    /\ nodeStat = AllReadable

Names == UNION {[1..k -> NameAlphabet] : k \in 0..MaxNameLen}

InitFilter ==
    /\ pc = "filter"
    /\ ignored_dirs = DEFAULT_IGNORED_DIRS
    /\ additional_ignores = None
    /\ include_exts = None
    /\ allowed_exts \in SUBSET ExtChoices
    /\ fname \in Names
    /\ extIgnored = FALSE
    /\ text = <<>>
    /\ redacted = <<>>
    /\ NoFS
    /\ WalkIdle
    /\ files = <<>>
    /\ large_files = <<>>
    /\ GateIdle
    /\ AggIdle
    /\ doc = <<>>

CallShouldIgnoreExt ==
    /\ pc = "filter"
    /\ extIgnored' = should_ignore_ext(allowed_exts, fname)
    /\ pc' = "filtered"
    /\ UNCHANGED <<walkVars, gateVars, aggVars, ioVars, cfgVars, fsVars,
                   fname, text, redacted, runResult, files, large_files,
                   files_to_process, reported>>

NextFilter == CallShouldIgnoreExt

SpecFilter == InitFilter /\ [][NextFilter]_vars

\* the lower-cased extension of the probe name is in allowed_exts
ExtAllowed ==
    /\ extension(fname).some
    /\ ToLower(extension(fname).val) \in allowed_exts

\* the lower-cased probe name contains ".so."
HasSoDot == Contains(ToLower(fname), <<".", "s", "o", ".">>)

\* C8 as stated: a file is ignored if and only if its lower-cased
\* extension is absent from allowed_exts.
C8_IgnoredIffExtAbsent ==
    pc = "filtered" => (extIgnored <=> ~ExtAllowed)

\* C8 amended: a file whose lower-cased name does not contain ".so." is
\* ignored if and only if its lower-cased extension is absent from
\* allowed_exts; a name that contains ".so." is ignored whatever its
\* extension.
C8_IgnoredIffExtAbsentOrSoDot ==
    pc = "filtered" => (extIgnored <=> (HasSoDot \/ ~ExtAllowed))

\* a name with an upper-case extension that the allow-list lets through
C8_Witness ==
    /\ pc = "filtered"
    /\ ~extIgnored
    /\ extension(fname).val # ToLower(extension(fname).val)

\* C9: a name without '.', a name ending in '.', and a name whose
\* lower-cased form contains ".so." are ignored whatever allowed_exts holds.
C9_NoExtOrSoDotIgnored ==
    (pc = "filtered"
       /\ (~Contains(fname, <<".">>) \/ EndsWith(fname, <<".">>) \/ HasSoDot))
    => extIgnored

\* ".So.c"-like: only the lower-cased name contains ".so.", and the
\* extension is allowed
C9_Witness ==
    /\ pc = "filtered"
    /\ extIgnored
    /\ HasSoDot
    /\ ~Contains(fname, <<".", "s", "o", ".">>)
    /\ ExtAllowed

(***************************************************************************)
(* Specification SpecGate: prompt_large_files on every list the walk can   *)
(* return and every sequence of keys.                                      *)
(***************************************************************************)
GateNames ==
    <<{<<".">>}, {<<"s", "r", "c">>}, {<<"a", ".", "c">>},
      {<<"s", "r", "c">>}, {<<"a", ".", "c">>}, {<<"a", ".", "c">>}>>
GateSizes ==
    <<{0}, {0}, SizeChoices, {0}, SizeChoices, SizeChoices>>

InitGate ==
    /\ pc = "gate"
    /\ ConfigInit
    /\ ProbeIdle
    /\ FSInit(GateNames, GateSizes)
    /\ nodeStat = AllReadable
    /\ pending = {}
    /\ wstate = [w \in WalkWorkers |-> "idle"]
    /\ wentry = [w \in WalkWorkers |-> 0]
    /\ collected \in SUBSET FileNodes
    /\ pruned = {}
    /\ files \in Orderings(collected)
    /\ \E o \in Orderings({f \in collected : nodeSize[f] > size_threshold}) :
          large_files = [i \in 1..Len(o) |-> <<o[i], nodeSize[o[i]]>>]
    /\ GateIdle
    /\ AggIdle
    /\ doc = <<>>

NextGate ==
    \/ GateEnter
    \/ KeyY
    \/ KeyN
    \/ KeyUp
    \/ KeyDown
    \/ KeyOther
    \/ KeyEnter

SpecGate == InitGate /\ [][NextGate]_vars

Oversized == {large_files[i][1] : i \in 1..Len(large_files)}
Rejected ==
    {large_files[i][1] : i \in {j \in 1..Len(large_files) : ~current_selection[j]}}
Accepted ==
    {large_files[i][1] : i \in {j \in 1..Len(large_files) : current_selection[j]}}

PosIn(sq, x) == CHOOSE i \in 1..Len(sq) : sq[i] = x

\* C5: the list prompt_large_files returns is the input list without the
\* oversized files whose decision is reject: no oversized file is both
\* accepted and rejected, every other file is kept, and the kept files are
\* in the order of the input.
C5_GateRemovesExactlyRejected ==
    pc = "create2" =>
        /\ Accepted \cap Rejected = {}
        /\ SeqRange(files_to_process) = SeqRange(files) \ Rejected
        /\ \A f \in SeqRange(files) \ Oversized : f \in SeqRange(files_to_process)
        /\ \A i, j \in 1..Len(files_to_process) :
              i < j => PosIn(files, files_to_process[i])
                         < PosIn(files, files_to_process[j])

\* Enter after an N: one oversized file rejected, one accepted, one file
\* below the threshold
C5_Witness ==
    /\ pc = "create2"
    /\ lastKey = "Enter"
    /\ Rejected # {}
    /\ Accepted # {}
    /\ SeqRange(files) \ Oversized # {}

\* C6: with no oversized file, or when Enter is read before any N, the
\* returned list is the input list.
C6_GateIdentity ==
    (pc = "create2" /\ (large_files = <<>> \/ ~nPressed))
    => files_to_process = files

\* Enter after a Y, never an N, with two oversized files
C6_Witness ==
    /\ pc = "create2"
    /\ lastKey = "Enter"
    /\ ~nPressed
    /\ Len(large_files) >= 2
    /\ current_index > 0
    /\ files_to_process = files

\* C20: in every state of the selection loop the cursor is the index of an
\* entry, 0 <= current_index < number of oversized entries, that number is
\* at least 1 (items.len() - 1 does not underflow), and the selection has
\* one boolean per entry.
C20_CursorInRange ==
    pc = "loop" =>
        /\ Len(large_files) >= 1
        /\ current_index \in 0..(Len(large_files) - 1)
        /\ DOMAIN current_selection = 1..Len(large_files)
        /\ \A i \in DOMAIN current_selection : current_selection[i] \in BOOLEAN

\* the cursor is on the last of several entries after a key that tried to
\* move it further
C20_Witness ==
    /\ pc = "loop"
    /\ Len(large_files) >= 2
    /\ current_index = Len(large_files) - 1
    /\ lastKey \in {"Y", "N", "Down"}
    /\ nPressed

\* C21: in the selection loop a Y or an N key changes only the decision of
\* the entry under the cursor, to accept or to reject, and leaves every
\* other decision as it was; the arrow keys, Enter, any other key and a
\* failed read leave every decision as it was.
C21_KeysChangeOnlyCursorEntry ==
    [][pc = "loop" =>
          /\ DOMAIN current_selection' = DOMAIN current_selection
          /\ \A i \in DOMAIN current_selection :
                IF i = current_index + 1 /\ lastKey' \in {"Y", "N"}
                THEN current_selection'[i] = (lastKey' = "Y")
                ELSE current_selection'[i] = current_selection[i]]_vars

\* an entry is rejected, and the key read last accepted another one
C21_Witness ==
    /\ pc = "loop"
    /\ lastKey = "Y"
    /\ \E i \in DOMAIN current_selection : ~current_selection[i]
    /\ \E i \in DOMAIN current_selection : current_selection[i]

\* C13: with a non-empty oversized list the selection loop ends only on
\* Enter: a step taken in the loop leaves it exactly when the key read is
\* Enter, every other key and every failed read keeps it running.
C13_LoopEndsOnlyOnEnter ==
    [][pc = "loop" => ((pc' # "loop") <=> (lastKey' = "Enter"))]_vars

C13_Witness ==
    /\ pc = "create2"
    /\ large_files # <<>>
    /\ lastKey = "Enter"
    /\ nPressed
    /\ current_index > 0

(***************************************************************************)
(* Specification SpecWalk: collect_files on trees whose directories and    *)
(* files carry ignored and allowed names.                                  *)
(***************************************************************************)
WalkNames ==
    <<{<<".">>}, DirNameChoices,
      {<<"a", ".", "c">>, <<"a", ".", "C">>},
      DirNameChoices,
      {<<"a", ".", "c">>, <<".", "_", "a", ".", "c">>},
      {<<"a", ".", "c">>, <<"a", ".", "p", "n", "g">>, <<"a">>}>>
WalkSizes ==
    <<{0}, {0}, SizeChoices, {0}, SizeChoices, {size_threshold + 1}>>

InitWalk ==
    /\ pc = "walk"
    /\ ConfigInit
    /\ ProbeIdle
    /\ FSInit(WalkNames, WalkSizes)
    /\ nodeStat = AllReadable
    /\ pending = {Root}
    /\ wstate = [w \in WalkWorkers |-> "idle"]
    /\ wentry = [w \in WalkWorkers |-> 0]
    /\ collected = {}
    /\ pruned = {}
    /\ files = <<>>
    /\ large_files = <<>>
    /\ GateIdle
    /\ AggIdle
    /\ doc = <<>>

NextWalk ==
    \/ \E w \in WalkWorkers : WalkNext(w)
    \/ \E w \in WalkWorkers : WalkFilter(w)
    \/ \E w \in WalkWorkers : WalkPush(w)
    \/ WalkDone

SpecWalk == InitWalk /\ [][NextWalk]_vars

\* the base name of d, lower-cased and without leading dots, is in
\* ignored_dirs
IgnoredDir(d) ==
    is_dir(d) /\ TrimStartDots(ToLower(nodeName[d])) \in ignored_dirs

Emitted == collected \cup SeqRange(files)

\* C7: every directory whose base name, lower-cased and without leading
\* dots, is in ignored_dirs is rejected by should_ignore_dir when the walk
\* meets it (it is never handed to a worker, and it is pruned as soon as
\* its parent has been read), and no file below such a directory, at any
\* depth, is ever emitted by the walk.
C7_IgnoredDirsPruned ==
    \A d \in Nodes :
        IgnoredDir(d) =>
            /\ \A w \in WalkWorkers : wentry[w] # d
            /\ (pc = "gate" /\ Ancestors(d) \cap pruned = {}) => d \in pruned
            /\ \A f \in Nodes : d \in Ancestors(f) => f \notin Emitted

\* the walk is over; ".Git" held a directory with a file the filter would
\* have let through, and a file outside it was emitted
C7_Witness ==
    /\ pc = "gate"
    /\ nodeName[2] = <<".", "G", "i", "t">>
    /\ ~IgnoredDir(4)
    /\ FilterMap(5) # "none"
    /\ 2 \in pruned
    /\ files # <<>>

\* the entries of large_files that name the path f
EntriesOf(f) == {i \in 1..Len(large_files) : large_files[i][1] = f}

\* C16: when collect_files has returned, whatever the interleaving of the
\* workers, large_files holds exactly one entry <<path, size>> for every
\* returned candidate whose size is strictly above 1048576 and no other
\* entry, so every oversized path is in the returned list.
C16_LargeListExact ==
    pc = "gate" =>
        /\ \A f \in SeqRange(files) :
              nodeSize[f] > 1048576 =>
                  /\ Cardinality(EntriesOf(f)) = 1
                  /\ \A i \in EntriesOf(f) : large_files[i][2] = nodeSize[f]
        /\ \A i \in 1..Len(large_files) :
              /\ large_files[i][1] \in SeqRange(files)
              /\ nodeSize[large_files[i][1]] > 1048576

\* two workers pushed, and a file of exactly 1 MiB was returned
C16_Witness ==
    /\ pc = "gate"
    /\ Len(large_files) >= 2
    /\ \E f \in SeqRange(files) : nodeSize[f] = 1048576

(***************************************************************************)
(* Redactor: the three substitutions of process_file (lines 608-631).      *)
(* A text is a sequence of tokens: "D" is the literal `DATA = b`, "q" a    *)
(* double quote, "B" the literal `b85decode`, "S" the literal `base64.`,   *)
(* "d" the literal `decode`, "(" and ")" the parentheses, "R" the          *)
(* placeholder `<binary data removed>`, and "g", "x" any other character   *)
(* (of a payload, of the surrounding text).                                *)
(***************************************************************************)
Q3 == <<"q", "q", "q">>
DataOpen == <<"D", "q", "q", "q">>
Placeholder1 == <<"D", "q", "q", "q", "R", "q", "q", "q">>
Placeholder2 == <<"q", "R", "q">>

\* the tokens of pat stand in t from index i on
At(t, i, pat) ==
    /\ i >= 1
    /\ i + Len(pat) - 1 <= Len(t)
    /\ SubSeq(t, i, i + Len(pat) - 1) = pat

\* index of the first token of t at or after i that is in the set cs,
\* 0 when there is none
FirstOf(t, i, cs) ==
    IF \E j \in i..Len(t) : t[j] \in cs
    THEN CHOOSE j \in i..Len(t) :
             t[j] \in cs /\ \A k \in i..(j - 1) : t[k] \notin cs
    ELSE 0

\* (DATA = b""")[^"]*?("""), tried at i: the index of the last token of
\* the match, 0 when the pattern does not match there.  [^"]* cannot run
\* over a quote, so the first quote behind the opening must start the
\* closing """.
match_data(t, i) ==
    IF ~At(t, i, DataOpen) THEN 0
    ELSE LET j == FirstOf(t, i + 4, {"q"})
         IN  IF j = 0 THEN 0
             ELSE IF At(t, j, Q3) THEN j + 2
             ELSE 0

\* (b85decode\().*?(\)), tried at i: up to the first ")"
match_b85(t, i) ==
    IF ~At(t, i, <<"B", "(">>) THEN 0
    ELSE FirstOf(t, i + 2, {")"})

\* (base64\.[^(]*decode\().*?(\)), tried at i: [^(]* ends in front of the
\* first "(", which `decode` must precede (`b85decode` ends in `decode`);
\* the result is <<index of that "(", index of the closing ")">>
match_base64(t, i) ==
    IF i > Len(t) \/ t[i] # "S" THEN <<0, 0>>
    ELSE LET p == FirstOf(t, i + 1, {"("})
         IN  IF p = 0 \/ p < i + 2 \/ t[p - 1] \notin {"d", "B"}
             THEN <<0, 0>>
             ELSE <<p, FirstOf(t, p + 1, {")"})>>

\* Regex::replace_all for each pattern: the matches are taken from left to
\* right without overlap, the replacement is not scanned again
\* replace_data with the replacement "$1<binary data removed>", without $2
RECURSIVE replace_data_no_close(_, _)
replace_data_no_close(t, i) ==
    IF i > Len(t) THEN <<>>
    ELSE LET e == match_data(t, i)
         IN  IF e > 0
             THEN DataOpen \o <<"R">> \o replace_data_no_close(t, e + 1)
             ELSE <<t[i]>> \o replace_data_no_close(t, i + 1)

RECURSIVE replace_data(_, _)
replace_data(t, i) ==
    IF i > Len(t) THEN <<>>
    ELSE LET e == match_data(t, i)
         IN  IF e > 0 THEN Placeholder1 \o replace_data(t, e + 1)
             ELSE <<t[i]>> \o replace_data(t, i + 1)

RECURSIVE replace_b85(_, _)
replace_b85(t, i) ==
    IF i > Len(t) THEN <<>>
    ELSE LET e == match_b85(t, i)
         IN  IF e > 0
             THEN <<"B", "(">> \o Placeholder2 \o <<")">> \o replace_b85(t, e + 1)
             ELSE <<t[i]>> \o replace_b85(t, i + 1)

RECURSIVE replace_base64(_, _)
replace_base64(t, i) ==
    IF i > Len(t) THEN <<>>
    ELSE LET m == match_base64(t, i)
         IN  IF m[2] > 0
             THEN SubSeq(t, i, m[1]) \o Placeholder2 \o <<")">>
                    \o replace_base64(t, m[2] + 1)
             ELSE <<t[i]>> \o replace_base64(t, i + 1)

\* the fold of lines 623-631
processed_content(t) ==
    replace_base64(replace_b85(replace_data(t, 1), 1), 1)

(***************************************************************************)
(* Specification SpecRedact: process_file on texts that hold a DATA        *)
(* literal, `pre DATA = b"""payload""" post`.                              *)
(***************************************************************************)
SeqsUpTo(A, n) == UNION {[1..k -> A] : k \in 0..n}

PreChoices == SeqsUpTo({"x", "B", "("}, MaxPreLen)
PayloadChoices == SeqsUpTo({"g", "q", ")"}, MaxPayloadLen)
PostChoices == SeqsUpTo({"x", ")"}, MaxPostLen)

InitRedact ==
    /\ pc = "redact"
    /\ ConfigInit
    /\ fname = <<>>
    /\ extIgnored = FALSE
    /\ \E pre \in PreChoices, pl \in PayloadChoices, post \in PostChoices :
          text = pre \o DataOpen \o pl \o Q3 \o post
    /\ redacted = <<>>
    /\ NoFS
    /\ WalkIdle
    /\ files = <<>>
    /\ large_files = <<>>
    /\ GateIdle
    /\ AggIdle
    /\ doc = <<>>

\* lines 602-633: the content is read, decoded and redacted
CallProcessFile ==
    /\ pc = "redact"
    /\ redacted' = processed_content(text)
    /\ pc' = "redacted"
    /\ UNCHANGED <<walkVars, gateVars, aggVars, ioVars, cfgVars, fsVars,
                   fname, extIgnored, text, runResult, files, large_files,
                   files_to_process, reported>>

NextRedact == CallProcessFile

SpecRedact == InitRedact /\ [][NextRedact]_vars

\* C10: the block of a file whose text holds DATA = b"""P""" holds
\* DATA = b"""<binary data removed>""" and no payload byte.
C10_DataPayloadRemoved ==
    pc = "redacted" =>
        /\ Contains(redacted, Placeholder1)
        /\ \A i \in 1..Len(redacted) : redacted[i] # "g"

(***************************************************************************)
(* Specification SpecIdem: process_file on arbitrary texts, and again on   *)
(* its own output.  A text is a concatenation of up to MaxChunks pieces of *)
(* the three patterns and of plain text.                                   *)
(***************************************************************************)
Chunks ==
    { DataOpen, Q3, <<"q">>, <<"g">>, <<"B", "(">>, <<"S">>, <<"d", "(">>,
      <<"S", "d", "(">>, <<"(">>, <<")">> }

RECURSIVE Flatten(_)
Flatten(ss) == IF ss = <<>> THEN <<>> ELSE Head(ss) \o Flatten(Tail(ss))

TextChoices == {Flatten(cs) : cs \in SeqsUpTo(Chunks, MaxChunks)}

InitIdem ==
    /\ pc = "redact"
    /\ ConfigInit
    /\ fname = <<>>
    /\ extIgnored = FALSE
    /\ text \in TextChoices
    /\ redacted = <<>>
    /\ NoFS
    /\ WalkIdle
    /\ files = <<>>
    /\ large_files = <<>>
    /\ GateIdle
    /\ AggIdle
    /\ doc = <<>>

\* lines 602-633 applied to a file whose content is the output of the
\* first call
CallProcessFileAgain ==
    /\ pc = "redacted"
    /\ text' = redacted
    /\ redacted' = processed_content(redacted)
    /\ pc' = "redacted2"
    /\ UNCHANGED <<walkVars, gateVars, aggVars, ioVars, cfgVars, fsVars,
                   fname, extIgnored, runResult, files, large_files,
                   files_to_process, reported>>

NextIdem ==
    \/ CallProcessFile
    \/ CallProcessFileAgain

SpecIdem == InitIdem /\ [][NextIdem]_vars

\* C11: redaction is idempotent: redacting the output of a redaction
\* changes nothing, redact(redact(t)) = redact(t) for every text t.
C11_RedactIdempotent ==
    pc = "redacted2" => redacted = text

C11_Witness ==
    /\ pc = "redacted2"
    /\ Contains(redacted, Placeholder1)
    /\ Contains(redacted, <<"B", "(">> \o Placeholder2 \o <<")">>)

(***************************************************************************)
(* Claims on the aggregation phase, checked under Spec.                    *)
(***************************************************************************)
\* C12: the progress counter counts completed files: it stays within
\* 0..total, the workers at work hold distinct values of it, and it is
\* never above the number of files whose block has been appended, so a
\* file that fails is never counted.
C12_CounterCountsCompleted ==
    /\ processed_count \in 0..Len(files_to_process)
    /\ \A v, w \in AggWorkers :
          (v # w /\ astate[v] # "idle" /\ astate[w] # "idle")
              => acount[v] # acount[w]
    /\ processed_count <= Cardinality(appended)

\* a walk worker is in the closure, or entries are still to be pulled
WalkBusy == pending # {} \/ \E w \in WalkWorkers : wstate[w] # "idle"

\* an aggregation worker is inside the try_for_each closure
AggBusy == \E w \in AggWorkers : astate[w] # "idle"

\* C14: the three phases never overlap: while the gate runs no walk worker
\* and no aggregation worker is at work and no file has been handed out,
\* aggregation workers run only after the gate has returned, and the
\* oversized list changes only by an append during the walk.
C14_PhasesDoNotOverlap ==
    /\ [](/\ pc \in {"gate", "loop", "create2"}
              => (~WalkBusy /\ ~AggBusy /\ taken = {})
          /\ WalkBusy => pc = "walk"
          /\ AggBusy => pc = "agg")
    /\ [][large_files' # large_files
            => /\ pc = "walk"
               /\ pc' = "walk"
               /\ \E e \in Nodes \X SizeChoices :
                     large_files' = Append(large_files, e)]_vars

C14_Witness ==
    /\ pc = "agg"
    /\ AggBusy
    /\ large_files # <<>>
    /\ Len(files_to_process) < Len(files)

\* C17: a worker holds the counter lock only while it increments the
\* counter and the output lock only while it appends its block: no lock is
\* held while it extracts a file, and no worker holds both locks at once.
C17_LocksHeldOnlyForUpdate ==
    \A w \in AggWorkers :
        /\ countLock = w => astate[w] = "counted"
        /\ outLock = w => astate[w] = "locked"
        /\ astate[w] \in {"extract", "read"} => (countLock # w /\ outLock # w)
        /\ ~(countLock = w /\ outLock = w)

\* the files that have a byte of their block in the output file or in the
\* buffer of its writer
FilesInOutput ==
    {doc[i][1] : i \in 1..Len(doc)} \cup {outBuf[i][1] : i \in 1..Len(outBuf)}

\* C19: no byte of the block of a file whose extraction failed is ever
\* appended: a file has bytes in the output only after process_file and
\* the read of its temp file have both succeeded and its worker has come
\* to the append.
C19_NoBlockOfFailedFile ==
    /\ failedFiles \cap appended = {}
    /\ failedFiles \cap FilesInOutput = {}
    /\ FilesInOutput \cap FileNodes \subseteq appended
    /\ \A w \in AggWorkers :
          astate[w] \in {"counted", "extract", "read", "write", "locked"}
              => afile[w] \notin FilesInOutput

\* the run is over: one extraction failed, the block of another file is in
\* the document
C19_Witness ==
    /\ pc = "done"
    /\ failedFiles # {}
    /\ \E f \in appended : \E i \in 1..Len(doc) : doc[i][1] = f

(***************************************************************************)
(* Specification SpecWalkErr: collect_files on a tree with directories     *)
(* that cannot be read and symbolic links to nothing.                      *)
(***************************************************************************)
ErrNames ==
    <<{<<".">>}, {<<"s", "r", "c">>}, {<<"a", ".", "c">>},
      {<<"s", "r", "c">>, <<".", "G", "i", "t">>}, {<<"a", ".", "c">>},
      {<<"a", ".", "c">>}>>
ErrSizes ==
    <<{0}, {0}, {size_threshold}, {0}, {size_threshold + 1}, {size_threshold}>>

StatChoices(n) ==
    IF Kind[n] = "dir" THEN {"ok", "unreadable"} ELSE {"ok", "dangling"}

InitWalkErr ==
    /\ pc = "walk"
    /\ ConfigInit
    /\ ProbeIdle
    /\ FSInit(ErrNames, ErrSizes)
    /\ nodeStat \in [Nodes -> {"ok", "unreadable", "dangling"}]
    /\ \A n \in Nodes : nodeStat[n] \in StatChoices(n)
    /\ pending = {Root}
    /\ wstate = [w \in WalkWorkers |-> "idle"]
    /\ wentry = [w \in WalkWorkers |-> 0]
    /\ collected = {}
    /\ pruned = {}
    /\ files = <<>>
    /\ large_files = <<>>
    /\ GateIdle
    /\ AggIdle
    /\ doc = <<>>

SpecWalkErr == InitWalkErr /\ [][NextWalk]_vars

\* the iterator reaches n: every directory above it passes filter_entry
\* and can be read
Visited(n) ==
    \A a \in Ancestors(n) : FilterEntry(a) /\ nodeStat[a] # "unreadable"

\* C15: an entry that cannot be read is skipped without failing the walk:
\* the walk can always take a step until collect_files returns, it returns
\* Ok, and the list it returns holds exactly the visited entries that are
\* files and pass the filters.
C15_WalkSkipsUnreadable ==
    /\ pc = "walk" => ENABLED NextWalk
    /\ runResult # "err"
    /\ pc = "gate" =>
          SeqRange(files) =
              {f \in FileNodes : Visited(f) /\ FilterMap(f) # "none"}

C15_Witness ==
    /\ pc = "gate"
    /\ files # <<>>
    /\ \E d \in DirNodes : nodeStat[d] = "unreadable" /\ Visited(d)
    /\ \E f \in FileNodes : nodeStat[f] = "dangling" /\ Visited(f)

(***************************************************************************)
(* Specification SpecNew: RepoProcessor::new on every pair of --ignore and *)
(* --include lists of up to MaxItems items.                                *)
(***************************************************************************)
\* str::trim: white space is removed at both ends
RECURSIVE TrimStart(_)
TrimStart(s) == IF s # <<>> /\ Head(s) = " " THEN TrimStart(Tail(s)) ELSE s

RECURSIVE TrimEnd(_)
TrimEnd(s) ==
    IF s # <<>> /\ s[Len(s)] = " " THEN TrimEnd(SubSeq(s, 1, Len(s) - 1))
    ELSE s

Trim(s) == TrimEnd(TrimStart(s))

\* lines 470-475, 485-490: item.trim(), then
\* cleaned.trim_start_matches('.').to_lowercase()
clean_item(item) == ToLower(TrimStartDots(Trim(item)))

\* the loop of lines 469-480 over the --ignore items, on the pair of sets
RECURSIVE ignore_loop(_, _)
ignore_loop(sets, items) ==
    IF items = <<>> THEN sets
    ELSE LET dir_name == clean_item(Head(items))
         IN  IF dir_name = <<>> THEN ignore_loop(sets, Tail(items))
             ELSE ignore_loop(
                      [ignored_dirs |-> sets.ignored_dirs \cup {dir_name},
                       allowed_exts |-> sets.allowed_exts \ {dir_name}],
                      Tail(items))

\* the loop of lines 484-494 over the --include items
RECURSIVE include_loop(_, _)
include_loop(sets, items) ==
    IF items = <<>> THEN sets
    ELSE LET ext == clean_item(Head(items))
         IN  IF ext = <<>> THEN include_loop(sets, Tail(items))
             ELSE include_loop(
                      [ignored_dirs |-> sets.ignored_dirs,
                       allowed_exts |-> sets.allowed_exts \cup {ext}],
                      Tail(items))

default_sets ==
    [ignored_dirs |-> DEFAULT_IGNORED_DIRS,
     allowed_exts |-> DEFAULT_ALLOWED_EXTS]

\* new with the two loops in the other order
new_sets_include_first(ignores, includes) ==
    LET a == IF includes.some THEN include_loop(default_sets, includes.val)
                              ELSE default_sets
    IN  IF ignores.some THEN ignore_loop(a, ignores.val) ELSE a

\* lines 457-495: the two sets new builds
new_sets(ignores, includes) ==
    LET a == IF ignores.some THEN ignore_loop(default_sets, ignores.val)
                             ELSE default_sets
    IN  IF includes.some THEN include_loop(a, includes.val) ELSE a

ItemChoices ==
    { <<"c">>, <<".", "C">>, <<" ", "s", "o", " ">>, <<"r", "s">>, <<".">>,
      <<" ">> }

ArgChoices == {None} \cup {Some(v) : v \in SeqsUpTo(ItemChoices, MaxItems)}

InitNew ==
    /\ pc = "new"
    /\ ignored_dirs = {}
    /\ allowed_exts = {}
    /\ additional_ignores \in ArgChoices
    /\ include_exts \in ArgChoices
    /\ ProbeIdle
    /\ NoFS
    /\ WalkIdle
    /\ files = <<>>
    /\ large_files = <<>>
    /\ GateIdle
    /\ AggIdle
    /\ doc = <<>>

\* RepoProcessor::new: tempdir() may fail (line 455), else the sets are
\* built and the processor is returned
CallNew ==
    /\ pc = "new"
    /\ \E tempdir_ok \in BOOLEAN :
          IF tempdir_ok
          THEN LET r == new_sets(additional_ignores, include_exts) IN
               /\ ignored_dirs' = r.ignored_dirs
               /\ allowed_exts' = r.allowed_exts
               /\ pc' = "constructed"
               /\ UNCHANGED runResult
          ELSE /\ runResult' = "err"
               /\ pc' = "done"
               /\ UNCHANGED <<ignored_dirs, allowed_exts>>
    /\ UNCHANGED <<additional_ignores, include_exts, walkVars, gateVars,
                   aggVars, ioVars, probeVars, fsVars, files, large_files,
                   files_to_process, reported>>

NextNew == CallNew

SpecNew == InitNew /\ [][NextNew]_vars

\* the items of an argument
ItemsOf(arg) == SeqRange(arg.val)

\* C18: after new, every --include item whose trimmed, dot-stripped,
\* lower-cased form is not empty is in allowed_exts in that form, also when
\* the same item was passed to --ignore; every such --ignore item is in
\* ignored_dirs and is not in allowed_exts unless it was also included.
C18_IncludeWinsOverIgnore ==
    pc = "constructed" =>
        /\ \A item \in ItemsOf(include_exts) :
              LET e == ToLower(TrimStartDots(Trim(item)))
              IN  e # <<>> => e \in allowed_exts
        /\ \A item \in ItemsOf(additional_ignores) :
              LET d == ToLower(TrimStartDots(Trim(item)))
              IN  d # <<>> =>
                     /\ d \in ignored_dirs
                     /\ d \in allowed_exts =>
                           \E inc \in ItemsOf(include_exts) :
                               ToLower(TrimStartDots(Trim(inc))) = d

\* one item was both ignored and included, and another ignored item was
\* taken out of the default extensions
C18_Witness ==
    /\ pc = "constructed"
    /\ \E i \in ItemsOf(additional_ignores), j \in ItemsOf(include_exts) :
          i # j /\ clean_item(i) = clean_item(j) /\ clean_item(i) # <<>>
    /\ \E k \in ItemsOf(additional_ignores) :
          clean_item(k) \in DEFAULT_ALLOWED_EXTS \ allowed_exts

====
